---------------------------- MODULE Spec2Model ----------------------------
(***************************************************************************)
(* A model of commitment (src/main.go), the prepare-commit-msg hook that   *)
(* asks a language model for a commit message and prepends it to the       *)
(* commit-message file.                                                    *)
(*                                                                         *)
(* src/main.go holds two variants of the program:                          *)
(*   variant 1 (lines 1-318): embedded prompt, recent-commit sample,        *)
(*                            stripMarkdownFences, no diff limit;          *)
(*   variant 2 (lines 320-600): maxDiffLines confirmation, 4000-character  *)
(*                            truncation, --no-ai-msg skip flag.           *)
(* The model carries the variant as a variable fixed at Init.              *)
(*                                                                         *)
(* Strings are sequences of tokens. A token is a substring of the Go       *)
(* string: one character ("a", "#", " ", "\n", "\"", "'"), or the three    *)
(* backticks of a markdown fence taken as one token.                       *)
(***************************************************************************)
EXTENDS Integers, Sequences, FiniteSets, TLC

VARIABLES
    variant,      \* 1 or 2: which main.go variant runs
    pc,           \* position of main
    argc,         \* len(os.Args)
    commitType,   \* os.Args[2], or "" when absent
    file,         \* the commit-message file: [readable, content]
    origFile,     \* the file as it was when the process started
    apiKey,       \* GEMINI_API_KEY present
    gitOk,        \* git diff --staged succeeds
    stagedDiff,   \* its output: [len, lines]
    parentArgs,   \* ps of the parent process: "flag", "noflag" or "error"
    skipped,      \* "none" before shouldSkip is called, then "skip" or "proceed"
    response,     \* the answer read from stdin at the large-diff prompt
    asked,        \* the large-diff prompt was shown
    requestSent,  \* the completion request was sent
    sentDiffLen,  \* length of the diff embedded in the user message
    apiResp,      \* the completion call's outcome
    message,      \* what generateCommitMessage returned
    updateCalled, \* updateCommitMessageFile was called
    writeResult,  \* "none", "read_fail", "ok", "open_fail", "partial"
    exitCode,     \* -1 while running, else the exit status
    events,       \* the steps taken so far, in order
    sanIn,        \* clean-up alone: the raw text
    sanOut,       \* clean-up alone: the text cleaned once
    sanAgain,     \* clean-up alone: the cleaned text cleaned again
    sanPc,        \* clean-up alone: position
    logCommits,   \* recent commits alone: the commits git log returns, newest first
    sample,       \* recent commits alone: filteredMsgs
    joined,       \* recent commits alone: what getCurrentAuthorRecentCommits returns
    filterPc      \* recent commits alone: position

vars == <<variant, pc, argc, commitType, file, origFile, apiKey, gitOk,
          stagedDiff, parentArgs, skipped, response, asked, requestSent,
          sentDiffLen, apiResp, message, updateCalled, writeResult, exitCode,
          events, sanIn, sanOut, sanAgain, sanPc, logCommits, sample, joined,
          filterPc>>

mainVars == <<variant, pc, argc, commitType, file, origFile, apiKey, gitOk,
              stagedDiff, parentArgs, skipped, response, asked, requestSent,
              sentDiffLen, apiResp, message, updateCalled, writeResult,
              exitCode, events>>

sanVars == <<sanIn, sanOut, sanAgain, sanPc>>

filterVars == <<logCommits, sample, joined, filterPc>>

----------------------------------------------------------------------------
(* Bounds of the model *)

\* longest commit-message file content, in tokens
MaxFileLen == 2
\* longest completion text, in tokens
MaxMsgLen == 2
\* longest raw text given to the clean-up on its own
MaxSanLen == 4
\* most commits in the log git returns
MaxCommits == 6

(* Program constants *)

\* const maxDiffLines = 2000
maxDiffLines == 2000
\* if len(diff) > 4000 { diff = diff[:4000] }
MaxDiffChars == 4000
\* if len(filteredMsgs) >= 5 { break }
MaxSample == 5
\* http.StatusOK
StatusOK == 200

----------------------------------------------------------------------------
(* Strings *)

NL == "\n"
Quote == "\""
Apos == "'"
\* the three backticks of a markdown fence, as one token
Fence == "<fence>"
Hash == "#"

\* all sequences over S of length at most n
StringsUpTo(S, n) == UNION {[1..k -> S] : k \in 0..n}

\* unicode.IsSpace, on the tokens of the model
IsSpace(c) == c \in {" ", NL}

RECURSIVE TrimLeft(_)
TrimLeft(s) ==
    IF s = <<>> THEN <<>>
    ELSE IF IsSpace(Head(s)) THEN TrimLeft(Tail(s)) ELSE s

RECURSIVE TrimRight(_)
TrimRight(s) ==
    IF s = <<>> THEN <<>>
    ELSE IF IsSpace(s[Len(s)]) THEN TrimRight(SubSeq(s, 1, Len(s) - 1)) ELSE s

\* strings.TrimSpace
TrimSpace(s) == TrimRight(TrimLeft(s))

\* strings.HasPrefix
HasPrefix(s, p) == Len(s) >= Len(p) /\ SubSeq(s, 1, Len(p)) = p

\* first index >= i where sep occurs in s, or 0
RECURSIVE IndexFrom(_, _, _)
IndexFrom(s, sep, i) ==
    IF i + Len(sep) - 1 > Len(s) THEN 0
    ELSE IF SubSeq(s, i, i + Len(sep) - 1) = sep THEN i
    ELSE IndexFrom(s, sep, i + 1)

\* strings.Split(s, sep) for a non-empty sep: leftmost, non-overlapping
RECURSIVE Split(_, _)
Split(s, sep) ==
    LET i == IndexFrom(s, sep, 1)
    IN IF i = 0 THEN <<s>>
       ELSE <<SubSeq(s, 1, i - 1)>> \o Split(SubSeq(s, i + Len(sep), Len(s)), sep)

\* strings.Join
RECURSIVE Join(_, _)
Join(parts, sep) ==
    IF parts = <<>> THEN <<>>
    ELSE IF Len(parts) = 1 THEN parts[1]
    ELSE parts[1] \o sep \o Join(Tail(parts), sep)

\* strings.ToLower, on the tokens of the model
ToLower(s) == [i \in 1..Len(s) |-> IF s[i] = "Y" THEN "y" ELSE s[i]]

----------------------------------------------------------------------------
(* The functions of main.go *)

\* shouldSkip with the content test left out
C4_shouldSkipTypeOnly(v, ctype, f, ps) ==
    IF ctype # "" THEN TRUE
    ELSE IF v = 2 /\ ps = "flag" THEN TRUE
    ELSE FALSE

\* shouldSkip taking a "#" anywhere in the content for a comment
C5_shouldSkipHashAnywhere(v, ctype, f, ps) ==
    IF ctype # "" THEN TRUE
    ELSE IF f.readable
            /\ TrimSpace(f.content) # <<>>
            /\ \A i \in 1..Len(f.content) : f.content[i] # Hash THEN TRUE
    ELSE IF v = 2 /\ ps = "flag" THEN TRUE
    ELSE FALSE

\* shouldSkip testing the content without strings.TrimSpace
C6_shouldSkipNoTrim(v, ctype, f, ps) ==
    IF ctype # "" THEN TRUE
    ELSE IF f.readable
            /\ f.content # <<>>
            /\ ~HasPrefix(f.content, <<Hash>>) THEN TRUE
    ELSE IF v = 2 /\ ps = "flag" THEN TRUE
    ELSE FALSE

\* shouldSkip (variant 1: lines 86-102; variant 2: lines 418-441).
\* f is the file, ps the outcome of ps on the parent process.
shouldSkip(v, ctype, f, ps) ==
    IF ctype # "" THEN TRUE
    ELSE IF f.readable
            /\ TrimSpace(f.content) # <<>>
            /\ ~HasPrefix(TrimSpace(f.content), <<Hash>>) THEN TRUE
    ELSE IF v = 2 /\ ps = "flag" THEN TRUE
    ELSE FALSE

\* getGitDiff: the staged diff, or "" when git fails
getGitDiff(ok, d) == IF ok THEN d ELSE [len |-> 0, lines |-> 0]

\* the length of the diff that generateCommitMessage puts in the user
\* message: variant 2 cuts it to 4000 characters, variant 1 takes it whole
EmbeddedDiffLen(v, d) ==
    IF v = 2 /\ d.len > MaxDiffChars THEN MaxDiffChars ELSE d.len

\* strings.HasPrefix(strings.ToLower(response), "y")
Confirms(r) == HasPrefix(ToLower(r), <<"y">>)

\* reQuotes = ^["'](.*)["']$ : the whole text between a leading and a
\* trailing quote character, on one line ("." matches no newline)
StripQuotes(m) ==
    IF /\ Len(m) >= 2
       /\ m[1] \in {Quote, Apos}
       /\ m[Len(m)] \in {Quote, Apos}
       /\ \A i \in 2..(Len(m) - 1) : m[i] # NL
    THEN SubSeq(m, 2, Len(m) - 1)
    ELSE m

\* stripMarkdownFences (lines 280-302)
stripMarkdownFences(m) ==
    IF HasPrefix(TrimSpace(m), <<Fence>>)
    THEN LET lines == Split(m, <<NL>>)
         IN IF Len(lines) <= 1 THEN <<>>
            ELSE LET rest == Tail(lines)
                     lastIdx == Len(rest)
                     body == IF lastIdx >= 1 /\ TrimSpace(rest[lastIdx]) = <<Fence>>
                             THEN SubSeq(rest, 1, lastIdx - 1)
                             ELSE rest
                 IN TrimSpace(Join(body, <<NL>>))
    ELSE m

\* the clean-up of the completion text (lines 244-256, 549-556):
\* variant 2 has no stripMarkdownFences
Sanitize(v, raw) ==
    IF v = 1 THEN stripMarkdownFences(StripQuotes(TrimSpace(raw)))
    ELSE StripQuotes(TrimSpace(raw))

\* generateCommitMessage without the test of the HTTP status
C3_GenerateResultAnyStatus(v, resp) ==
    IF resp.kind # "http" THEN <<>>
    ELSE IF ~resp.readOk THEN <<>>
    ELSE IF ~resp.parseOk THEN <<>>
    ELSE IF Len(resp.choices) = 0 THEN <<>>
    ELSE Sanitize(v, resp.choices[1])

\* what generateCommitMessage returns for the outcome resp of the
\* completion call (lines 211-256, 516-561)
GenerateResult(v, resp) ==
    IF resp.kind # "http" THEN <<>>
    ELSE IF resp.status # StatusOK THEN <<>>
    ELSE IF ~resp.readOk THEN <<>>
    ELSE IF ~resp.parseOk THEN <<>>
    ELSE IF Len(resp.choices) = 0 THEN <<>>
    ELSE Sanitize(v, resp.choices[1])

\* the new content with a single newline as separator
C1_NewContentOneNewline(msg, existing) == msg \o <<NL>> \o existing

\* fmt.Sprintf("%s\n\n%s", message, string(existingContent))
NewContent(msg, existing) == msg \o <<NL, NL>> \o existing

\* len(os.Args) < 2: no commit-message file was given
C8_ArgsMissingOffByOne(n) == n < 1
ArgsMissing(n) == n < 2

----------------------------------------------------------------------------
(* The inputs of one invocation *)

FileAlphabet == {"a", Hash, " ", NL}
FileContents == StringsUpTo(FileAlphabet, MaxFileLen)

\* a readable file of any content; a missing file; a file that holds a
\* message and cannot be read (no read permission)
Files ==
    {[readable |-> TRUE, content |-> c] : c \in FileContents}
    \cup {[readable |-> FALSE, content |-> <<>>],
          [readable |-> FALSE, content |-> <<"a">>]}

CommitTypes == {"", "merge", "message"}

\* staged diffs by length in characters and number of newlines: none, a
\* small one, and those at and just over the two limits of variant 2
Diffs ==
    {[len |-> 0, lines |-> 0], [len |-> 1, lines |-> 0]}
    \cup {[len |-> l, lines |-> n] :
            l \in {MaxDiffChars, MaxDiffChars + 1},
            n \in {maxDiffLines, maxDiffLines + 1}}

\* answers typed at the large-diff prompt (<<>>: nothing could be read)
Responses == {<<>>, <<"y">>, <<"Y", "e">>, <<"n">>}

ApiAlphabet == {"a", Quote, Fence, NL}
ApiTexts == StringsUpTo(ApiAlphabet, MaxMsgLen)

NoResponse ==
    [kind |-> "none", status |-> 0, readOk |-> FALSE, parseOk |-> FALSE,
     choices |-> <<>>]

\* the outcomes of the completion call: no connection, an HTTP error
\* status, a body that cannot be read, a body that is not the expected
\* JSON, no choice, one choice, two choices
ApiResponses ==
    {[kind |-> "neterr", status |-> 0, readOk |-> FALSE, parseOk |-> FALSE,
      choices |-> <<>>]}
    \cup {[kind |-> "http", status |-> st, readOk |-> TRUE, parseOk |-> TRUE,
           choices |-> <<>>] : st \in {500, 201}}
    \cup {[kind |-> "http", status |-> 500, readOk |-> TRUE, parseOk |-> TRUE,
           choices |-> << <<"a">> >>]}
    \cup {[kind |-> "http", status |-> StatusOK, readOk |-> FALSE,
           parseOk |-> FALSE, choices |-> <<>>]}
    \cup {[kind |-> "http", status |-> StatusOK, readOk |-> TRUE,
           parseOk |-> FALSE, choices |-> <<>>]}
    \cup {[kind |-> "http", status |-> StatusOK, readOk |-> TRUE,
           parseOk |-> TRUE, choices |-> <<>>]}
    \cup {[kind |-> "http", status |-> StatusOK, readOk |-> TRUE,
           parseOk |-> TRUE, choices |-> <<t>>] : t \in ApiTexts}
    \cup {[kind |-> "http", status |-> StatusOK, readOk |-> TRUE,
           parseOk |-> TRUE, choices |-> <<t, <<"a">>>>] : t \in ApiTexts}

\* the clean-up and the recent-commit query on their own are not running
SanIdle == sanIn = <<>> /\ sanOut = <<>> /\ sanAgain = <<>> /\ sanPc = "idle"
FilterIdle ==
    logCommits = <<>> /\ sample = <<>> /\ joined = <<>> /\ filterPc = "idle"

----------------------------------------------------------------------------
(* main (variant 1: lines 46-84; variant 2: lines 364-416) *)

\* main is not running: the state of main while one of its functions runs
\* on its own
MainIdle ==
    /\ pc = "idle"
    /\ argc = 0
    /\ commitType = ""
    /\ file = [readable |-> FALSE, content |-> <<>>]
    /\ origFile = file
    /\ apiKey = FALSE
    /\ gitOk = FALSE
    /\ stagedDiff = [len |-> 0, lines |-> 0]
    /\ parentArgs = "noflag"
    /\ skipped = "none"
    /\ response = <<>>
    /\ asked = FALSE
    /\ requestSent = FALSE
    /\ sentDiffLen = 0
    /\ apiResp = NoResponse
    /\ message = <<>>
    /\ updateCalled = FALSE
    /\ writeResult = "none"
    /\ exitCode = -1
    /\ events = <<>>

Init ==
    /\ variant \in {1, 2}
    /\ pc = "start"
    /\ argc \in 1..3
    /\ commitType \in (IF argc = 3 THEN CommitTypes ELSE {""})
    /\ file \in Files
    /\ origFile = file
    /\ apiKey \in BOOLEAN
    /\ gitOk \in BOOLEAN
    /\ stagedDiff \in Diffs
    /\ parentArgs \in (IF variant = 2 THEN {"flag", "noflag", "error"}
                       ELSE {"noflag"})
    /\ skipped = "none"
    /\ response = <<>>
    /\ asked = FALSE
    /\ requestSent = FALSE
    /\ sentDiffLen = 0
    /\ apiResp = NoResponse
    /\ message = <<>>
    /\ updateCalled = FALSE
    /\ writeResult = "none"
    /\ exitCode = -1
    /\ events = <<>>
    /\ SanIdle
    /\ FilterIdle

Exit(code) == pc' = "done" /\ exitCode' = code

\* if len(os.Args) < 2 { os.Exit(1) }
CheckArgs ==
    /\ pc = "start"
    /\ IF ArgsMissing(argc)
       THEN Exit(1) /\ events' = Append(events, "usage")
       ELSE pc' = "gate" /\ exitCode' = exitCode
            /\ events' = Append(events, "args")
    /\ UNCHANGED <<variant, argc, commitType, file, origFile, apiKey, gitOk,
                   stagedDiff, parentArgs, skipped, response, asked,
                   requestSent, sentDiffLen, apiResp, message, updateCalled,
                   writeResult>>
    /\ UNCHANGED <<sanVars, filterVars>>

\* if shouldSkip(commitType, commitMsgFile) { os.Exit(0) }
SkipGate ==
    /\ pc = "gate"
    /\ IF shouldSkip(variant, commitType, file, parentArgs)
       THEN skipped' = "skip" /\ Exit(0)
            /\ events' = Append(events, "gate_skip")
       ELSE skipped' = "proceed" /\ pc' = "key" /\ exitCode' = exitCode
            /\ events' = Append(events, "gate_proceed")
    /\ UNCHANGED <<variant, argc, commitType, file, origFile, apiKey, gitOk,
                   stagedDiff, parentArgs, response, asked, requestSent,
                   sentDiffLen, apiResp, message, updateCalled, writeResult>>
    /\ UNCHANGED <<sanVars, filterVars>>

\* if apiKey == "" { os.Exit(0) }
CheckKey ==
    /\ pc = "key"
    /\ IF ~apiKey
       THEN Exit(0) /\ events' = Append(events, "no_key")
       ELSE pc' = "diff" /\ exitCode' = exitCode
            /\ events' = Append(events, "key")
    /\ UNCHANGED <<variant, argc, commitType, file, origFile, apiKey, gitOk,
                   stagedDiff, parentArgs, skipped, response, asked,
                   requestSent, sentDiffLen, apiResp, message, updateCalled,
                   writeResult>>
    /\ UNCHANGED <<sanVars, filterVars>>

\* diff := getGitDiff(); if diff == "" { os.Exit(0) }; variant 2 goes on
\* to the large-diff prompt when diffLines > maxDiffLines
GetDiff ==
    /\ pc = "diff"
    /\ LET diff == getGitDiff(gitOk, stagedDiff)
       IN IF diff.len = 0
          THEN Exit(0) /\ events' = Append(events, "no_diff")
          ELSE /\ pc' = IF variant = 2 /\ diff.lines > maxDiffLines
                        THEN "confirm" ELSE "generate"
               /\ exitCode' = exitCode
               /\ events' = Append(events, "diff")
    /\ UNCHANGED <<variant, argc, commitType, file, origFile, apiKey, gitOk,
                   stagedDiff, parentArgs, skipped, response, asked,
                   requestSent, sentDiffLen, apiResp, message, updateCalled,
                   writeResult>>
    /\ UNCHANGED <<sanVars, filterVars>>

\* variant 2, lines 399-408: fmt.Scanln(&response); anything that does not
\* start with y or Y ends the run
ConfirmLargeDiff ==
    /\ pc = "confirm"
    /\ \E r \in Responses :
        /\ response' = r
        /\ asked' = TRUE
        /\ IF ~Confirms(r)
           THEN Exit(0) /\ events' = Append(events, "declined")
           ELSE pc' = "generate" /\ exitCode' = exitCode
                /\ events' = Append(events, "confirmed")
    /\ UNCHANGED <<variant, argc, commitType, file, origFile, apiKey, gitOk,
                   stagedDiff, parentArgs, skipped, requestSent, sentDiffLen,
                   apiResp, message, updateCalled, writeResult>>
    /\ UNCHANGED <<sanVars, filterVars>>

\* message := generateCommitMessage(diff, changedFiles, apiKey), then
\* main's test of message != "". In variant 1 a prompt template that does
\* not parse or execute returns "" before anything is sent; in variant 2 an
\* unreadable prompt file only empties the system message.
generateCommitMessage ==
    /\ pc = "generate"
    /\ \E promptOk \in BOOLEAN, resp \in ApiResponses :
        IF variant = 1 /\ ~promptOk
        THEN /\ requestSent' = FALSE
             /\ sentDiffLen' = sentDiffLen
             /\ apiResp' = NoResponse
             /\ message' = <<>>
             /\ Exit(0)
             /\ events' = Append(events, "no_prompt")
        ELSE /\ requestSent' = TRUE
             /\ sentDiffLen' = EmbeddedDiffLen(variant, stagedDiff)
             /\ apiResp' = resp
             /\ message' = GenerateResult(variant, resp)
             /\ IF message' # <<>>
                THEN pc' = "update" /\ exitCode' = exitCode
                     /\ events' = events \o <<"request", "message">>
                ELSE Exit(0)
                     /\ events' = events \o <<"request", "no_message">>
    /\ UNCHANGED <<variant, argc, commitType, file, origFile, apiKey, gitOk,
                   stagedDiff, parentArgs, skipped, response, asked,
                   updateCalled, writeResult>>
    /\ UNCHANGED <<sanVars, filterVars>>

\* updateCommitMessageFile (lines 304-318, 585-599), then main returns.
\* os.WriteFile opens the file with O_TRUNC and then writes: it can fail at
\* the open, leaving the file as it was, or at the write, leaving the first
\* k bytes of the new content.
updateCommitMessageFile ==
    /\ pc = "update"
    /\ updateCalled' = TRUE
    /\ IF ~file.readable
       THEN /\ writeResult' = "read_fail"
            /\ file' = file
            /\ events' = Append(events, "read_fail")
       ELSE LET newContent == NewContent(message, file.content)
            IN \E outcome \in {"ok", "open_fail", "partial"} :
                /\ writeResult' = outcome
                /\ events' = Append(events, IF outcome = "ok" THEN "write"
                                            ELSE "write_fail")
                /\ IF outcome = "ok"
                   THEN file' = [file EXCEPT !.content = newContent]
                   ELSE IF outcome = "open_fail"
                   THEN file' = file
                   ELSE \E k \in 0..(Len(newContent) - 1) :
                         file' = [file EXCEPT
                                    !.content = SubSeq(newContent, 1, k)]
    /\ Exit(0)
    /\ UNCHANGED <<variant, argc, commitType, origFile, apiKey, gitOk,
                   stagedDiff, parentArgs, skipped, response, asked,
                   requestSent, sentDiffLen, apiResp, message>>
    /\ UNCHANGED <<sanVars, filterVars>>

Next ==
    \/ CheckArgs
    \/ SkipGate
    \/ CheckKey
    \/ GetDiff
    \/ ConfirmLargeDiff
    \/ generateCommitMessage
    \/ updateCommitMessageFile

Spec == Init /\ [][Next]_vars

----------------------------------------------------------------------------
(* Properties of one invocation *)

\* the first character that is not white space exists and is not "#":
\* the file holds a message
HoldsMessage(c) ==
    \E i \in 1..Len(c) :
        /\ ~IsSpace(c[i])
        /\ c[i] # Hash
        /\ \A j \in 1..(i - 1) : IsSpace(c[j])

\* every character that is not white space is on a line that starts
\* with "#": the content is empty, white space only or comments only
BlankOrComments(c) ==
    \A i \in 1..Len(c) :
        IsSpace(c[i]) \/
        \E j \in 1..i :
            /\ c[j] = Hash
            /\ (j = 1 \/ c[j - 1] = NL)
            /\ \A k \in j..i : c[k] # NL

\* the file's bytes were written (wholly or in part)
FileWritten == writeResult \in {"ok", "partial"}

Occurs(e) == \E i \in 1..Len(events) : events[i] = e
Before(e1, e2) ==
    \E i, j \in 1..Len(events) : i < j /\ events[i] = e1 /\ events[j] = e2

\* C1: after updateCommitMessageFile has read and written the file, the
\* file is the message, two newlines, and the content it had before,
\* with nothing inserted, dropped or reordered.
C1_PrependLaw ==
    writeResult = "ok" =>
        LET m == Len(message)
            c == origFile.content
        IN /\ Len(file.content) = m + 2 + Len(c)
           /\ SubSeq(file.content, 1, m) = message
           /\ file.content[m + 1] = NL
           /\ file.content[m + 2] = NL
           /\ SubSeq(file.content, m + 3, m + 2 + Len(c)) = c

C1_Witness ==
    /\ writeResult = "ok"
    /\ Len(message) = 2
    /\ Len(origFile.content) = 2

\* C2: in every state of an invocation, the states after a failed read or
\* write included, the original content of the file is still there as the
\* end of the file (the writer never discards it).
C2_NeverDiscards ==
    /\ Len(file.content) >= Len(origFile.content)
    /\ SubSeq(file.content,
              Len(file.content) - Len(origFile.content) + 1,
              Len(file.content)) = origFile.content

\* the completion call failed: no connection, a status outside 2xx, a body
\* that cannot be read or parsed, no choice
ApiFailed(r) ==
    \/ r.kind = "neterr"
    \/ /\ r.kind = "http"
       /\ \/ r.status \notin 200..299
          \/ ~r.readOk
          \/ ~r.parseOk
          \/ r.choices = <<>>

\* C3: when the completion call fails, generateCommitMessage returns "",
\* updateCommitMessageFile is not called, the file is unchanged and the
\* process exits with status 0.
C3_ApiFailureLeavesFile ==
    (requestSent /\ ApiFailed(apiResp)) =>
        /\ message = <<>>
        /\ ~updateCalled
        /\ file = origFile
        /\ pc = "done"
        /\ exitCode = 0

C3_Witness ==
    /\ requestSent
    /\ apiResp.kind = "http"
    /\ apiResp.status = 500
    /\ apiResp.choices # <<>>
    /\ origFile.content # <<>>
    /\ exitCode = 0

\* a write happened only after, in this order: the gate let a pristine
\* file through, the credential was found, the diff was not empty, the
\* request was sent, the completion gave a message
WriteOrder ==
    FileWritten =>
        /\ skipped = "proceed"
        /\ BlankOrComments(origFile.content) \/ ~HoldsMessage(origFile.content)
        /\ apiKey
        /\ gitOk /\ stagedDiff.len > 0
        /\ Before("gate_proceed", "key")
        /\ Before("key", "diff")
        /\ Before("diff", "request")
        /\ Before("request", "message")
        /\ \E i \in 1..Len(events) :
              /\ events[i] \in {"write", "write_fail"}
              /\ \E j \in 1..(i - 1) : events[j] = "message"

NoSideEffect == ~requestSent /\ ~FileWritten /\ file = origFile

C5_SkipsWhenItMust ==
    skipped # "none" =>
        /\ commitType # "" => skipped = "skip"
        /\ (commitType = "" /\ origFile.readable
              /\ HoldsMessage(origFile.content)) => skipped = "skip"

C5_Witness ==
    /\ skipped = "skip"
    /\ commitType = ""
    /\ origFile.readable
    /\ origFile.content = <<NL, "a">>
    /\ parentArgs # "flag"

\* C6 as stated: for commit type "" and a file content that is empty,
\* white space only or comments only, shouldSkip returns false whatever
\* else holds of the invocation.
C6_ProceedsOnPristine ==
    (skipped # "none" /\ commitType = ""
       /\ BlankOrComments(origFile.content)) => skipped = "proceed"

\* C6 (amended): for commit type "" and a file content that is empty,
\* white space only or comments only, shouldSkip returns false, unless
\* the variant that looks at the parent process finds --no-ai-msg in its
\* command line.
C6_ProceedsOnPristineNoFlag ==
    (skipped # "none" /\ commitType = ""
       /\ BlankOrComments(origFile.content)
       /\ ~(variant = 2 /\ parentArgs = "flag")) => skipped = "proceed"

C6_Witness ==
    /\ skipped = "proceed"
    /\ commitType = ""
    /\ origFile.readable
    /\ origFile.content = <<NL, Hash>>
    /\ variant = 2

\* C8: the process ends with a non-zero status exactly when the file
\* argument is missing; every other end has status 0.
C8_ExitStatus ==
    /\ pc = "done" => (exitCode \in {0, 1} /\ (exitCode # 0 <=> argc < 2))
    /\ pc # "done" => exitCode = -1

C8_Witness ==
    /\ pc = "done"
    /\ writeResult = "read_fail"
    /\ exitCode = 0

\* C10: whenever a completion request is sent, the diff in it has at most
\* 4000 characters, or the diff had more than 2000 lines and the user
\* answered with y.
C10_DiffBounded ==
    requestSent =>
        \/ sentDiffLen <= MaxDiffChars
        \/ /\ stagedDiff.lines > maxDiffLines
           /\ asked
           /\ Len(response) >= 1
           /\ response[1] \in {"y", "Y"}

----------------------------------------------------------------------------
(* The clean-up of the completion text, on its own *)

SanAlphabet == {"a", Quote, Apos, Fence, NL, " "}

SanInit ==
    /\ variant \in {1, 2}
    /\ MainIdle
    /\ FilterIdle
    /\ sanIn \in StringsUpTo(SanAlphabet, MaxSanLen)
    /\ sanOut = <<>>
    /\ sanAgain = <<>>
    /\ sanPc = "raw"

\* the clean-up applied to the completion text
SanitizeOnce ==
    /\ sanPc = "raw"
    /\ sanOut' = Sanitize(variant, sanIn)
    /\ sanPc' = "once"
    /\ UNCHANGED <<sanIn, sanAgain, mainVars, filterVars>>

\* the clean-up applied to its own output
SanitizeAgain ==
    /\ sanPc = "once"
    /\ sanAgain' = Sanitize(variant, sanOut)
    /\ sanPc' = "twice"
    /\ UNCHANGED <<sanIn, sanOut, mainVars, filterVars>>

SanNext == SanitizeOnce \/ SanitizeAgain

SanSpec == SanInit /\ [][SanNext]_vars

\* C7: the clean-up applied to its own output returns that output
\* unchanged.
C7_SanitizeIdempotent == sanPc = "twice" => sanAgain = sanOut

----------------------------------------------------------------------------
(* getCurrentAuthorRecentCommits (lines 125-163), on its own *)

\* the text "Signed-off-by:", as one token
SignOff == "Signed-off-by:"
\* the text "---" of the separator, as one token
Dashes == "---"

TitleLine == <<"t">>
BodyLine == <<"b">>
SignLine == <<SignOff, "a">>
BlankLine == <<>>

\* commit messages, as their lines: a title; a title and a sign-off; a
\* title, a blank line and a sign-off; a title, a blank line and a body of
\* one or two lines; a title and a second line
CommitShapes ==
    {<<TitleLine>>,
     <<TitleLine, SignLine>>,
     <<TitleLine, BlankLine, SignLine>>,
     <<TitleLine, BlankLine, BodyLine>>,
     <<TitleLine, BlankLine, BodyLine, BodyLine>>,
     <<TitleLine, BodyLine>>}

\* %B of one commit: its lines, each ended by a newline
RawBody(c) == Join(c, <<NL>>) \o <<NL>>

\* git log --pretty=format:%B: the raw bodies, a newline between them
LogOutput(commits) ==
    Join([i \in 1..Len(commits) |-> RawBody(commits[i])], <<NL>>)

\* the loop of lines 148-160 over the remaining chunks, acc being
\* filteredMsgs so far
RECURSIVE FilterMsgs(_, _)
FilterMsgs(chunks, acc) ==
    IF chunks = <<>> THEN acc
    ELSE LET msg == Head(chunks)
             lines == Split(TrimSpace(msg), <<NL>>)
         IN IF \/ Len(lines) <= 1
               \/ (Len(lines) = 2 /\ HasPrefix(lines[2], <<SignOff>>))
            THEN FilterMsgs(Tail(chunks), acc)
            ELSE IF Len(acc) + 1 >= MaxSample THEN Append(acc, msg)
            ELSE FilterMsgs(Tail(chunks), Append(acc, msg))

\* commitMsgs := strings.Split(string(output), "\n\n"), then the filter
RecentCommitSample(output) == FilterMsgs(Split(output, <<NL, NL>>), <<>>)

FilterInit ==
    /\ variant = 1
    /\ MainIdle
    /\ SanIdle
    /\ logCommits \in StringsUpTo(CommitShapes, MaxCommits)
    /\ sample = <<>>
    /\ joined = <<>>
    /\ filterPc = "start"

\* one call: git config user.email, git log, the filter, the join
getCurrentAuthorRecentCommits ==
    /\ filterPc = "start"
    /\ \E emailOk, logOk \in BOOLEAN :
        IF ~emailOk \/ ~logOk
        THEN /\ sample' = <<>>
             /\ joined' = <<>>
             /\ filterPc' = "failed"
        ELSE /\ sample' = RecentCommitSample(LogOutput(logCommits))
             /\ joined' = Join(sample', <<NL, NL, Dashes, NL, NL>>)
             /\ filterPc' = "done"
    /\ UNCHANGED <<logCommits, mainVars, sanVars>>

FilterNext == getCurrentAuthorRecentCommits

FilterSpec == FilterInit /\ [][FilterNext]_vars

\* the commit is its title alone
TitleOnly(c) == Len(c) = 1
\* the commit is its title and one Signed-off-by line
TitleAndSignOff(c) == Len(c) = 2 /\ HasPrefix(c[2], <<SignOff>>)
\* the commit has a line after the title that is neither blank nor a
\* sign-off
HasBody(c) ==
    \E i \in 2..Len(c) : c[i] # <<>> /\ ~HasPrefix(c[i], <<SignOff>>)
\* the commit's message is an entry of the sample
Included(c) ==
    \E k \in 1..Len(sample) : TrimSpace(sample[k]) = Join(c, <<NL>>)

\* C9: a commit that is a title, or a title and one Signed-off-by line, is
\* not in the sample; a commit with a further line (a title, a blank line
\* and a body) is in the sample as one entry, as long as the sample has
\* room for all such commits; the sample has at most 5 entries.
C9_RecentCommitFilter ==
    filterPc = "done" =>
        /\ \A i \in 1..Len(logCommits) :
              (TitleOnly(logCommits[i]) \/ TitleAndSignOff(logCommits[i]))
                  => ~Included(logCommits[i])
        /\ Cardinality({i \in 1..Len(logCommits) : HasBody(logCommits[i])})
              <= MaxSample
             => \A i \in 1..Len(logCommits) :
                   HasBody(logCommits[i]) => Included(logCommits[i])
        /\ Len(sample) <= MaxSample

============================================================================
